---- MODULE Spec2Model ----
(***************************************************************************)
(* A model of the grawler web crawler.                                     *)
(*                                                                         *)
(*   package robots  (RulesIndex, CrawlRules, fetchCrawlRules)             *)
(*   package main    (manager, crawl, printer)                             *)
(*                                                                         *)
(* Strings are TLA+ strings; the Go library functions applied to them      *)
(* (strings.SplitN, strings.ToLower, strings.TrimSpace, strconv.Atoi,      *)
(* url.Parse, URL.String) are computed on the finite sample of strings the *)
(* model draws its inputs from.  A time.Duration is an int64 count of      *)
(* nanoseconds, kept as 8 little-endian bytes in two's complement so that  *)
(* the multiplication by time.Second wraps as it does in Go.               *)
(***************************************************************************)
EXTENDS Integers, Sequences, FiniteSets, TLC

VARIABLES
    \* CrawlRules.Test applied to one rule set and one path
    tRules, tPath, tDone, tResult,
    \* the line loop of fetchCrawlRules over one robots.txt body
    pBody, pIdx, pState, pPrev,
    \* RulesIndex.Get called by one caller, one call after the other
    iRules, iPc, iHost, iRet, iLast, iGets, iFetches,
    \* main: the -start flag and how far main has come
    firstURL, mainPc,
    \* manager: the visited set, the rules index, the two channels, the
    \* position of the admission loop (mPc, the batch being ranged over and
    \* the index in it), and the crawl goroutines started so far
    visited, rulesIndex, vettingQueue, finished, mPc, mBatch, mIdx, workers,
    \* printer: the consumer loop, the graph and its mutex
    prPc, prSite, graph, mutex,
    \* history: per URL string what the admission loop did with it, and the
    \* robots.txt requests sent per hostname
    admission, robotsFetches,
    \* the crawler with several vet and crawl goroutines: the two sync.Maps,
    \* the three channels, the goroutines' positions, and the goroutines
    \* that wait to send a batch
    vVisited, visitingRules, vVetting, crawlingQueue, vFinished, vets, crawls,
    pendingSends,
    \* history: the robots.txt requests per hostname (sent, failed) and the
    \* sends to crawlingQueue per URL string
    vFetches, vPushes

varsTest == <<tRules, tPath, tDone, tResult>>
varsParse == <<pBody, pIdx, pState, pPrev>>
varsIndex == <<iRules, iPc, iHost, iRet, iLast, iGets, iFetches>>
varsCrawl ==
    <<firstURL, mainPc, visited, rulesIndex, vettingQueue, finished, mPc, mBatch, mIdx, workers,
      prPc, prSite, graph, mutex, admission, robotsFetches>>
varsVet ==
    <<vVisited, visitingRules, vVetting, crawlingQueue, vFinished, vets, crawls,
      pendingSends, vFetches, vPushes>>
vars == <<varsTest, varsParse, varsIndex, varsCrawl, varsVet>>

\* the variables each part of the model leaves alone
restOfTest == <<varsParse, varsIndex, varsCrawl, varsVet>>
restOfParse == <<varsTest, varsIndex, varsCrawl, varsVet>>
restOfIndex == <<varsTest, varsParse, varsCrawl, varsVet>>
restOfCrawl == <<varsTest, varsParse, varsIndex, varsVet>>
restOfVet == <<varsTest, varsParse, varsIndex, varsCrawl>>

(***************************************************************************)
(* Bounds of the model                                                     *)
(***************************************************************************)
\* the longest robots.txt body, in lines
MaxLines == 3
\* the calls of RulesIndex.Get one caller makes
MaxGets == 4
\* the capacity of the channels (the queueSize flag)
QueueSize == 2

(***************************************************************************)
(* int64 and time.Duration                                                 *)
(***************************************************************************)
\* bytes of an int64
Int64Bytes == 8

\* byte k (0 = lowest) of a natural number below 2^31
Byte(x, k) == IF k >= 4 THEN 0 ELSE (x \div (256 ^ k)) % 256

\* the int64 of a small integer
I64(i) ==
    [k \in 1..Int64Bytes |->
        IF i >= 0 THEN Byte(i, k - 1) ELSE 255 - Byte((-i) - 1, k - 1)]

IsNeg(a) == a[Len(a)] >= 128

\* the same number on w bytes, w >= Len(a)
SignExtend(a, w) ==
    [k \in 1..w |-> IF k <= Len(a) THEN a[k] ELSE IF IsNeg(a) THEN 255 ELSE 0]

ULess(a, b) ==
    \E k \in 1..Len(a) :
        /\ a[k] < b[k]
        /\ \A j \in (k + 1)..Len(a) : a[j] = b[j]

\* a < b, both signed and of the same width
SLess(a, b) == IF IsNeg(a) # IsNeg(b) THEN IsNeg(a) ELSE ULess(a, b)

RECURSIVE SumProd(_, _, _, _)
SumProd(a, b, k, i) ==
    IF i > k THEN 0 ELSE a[i + 1] * b[k - i + 1] + SumProd(a, b, k, i + 1)

RECURSIVE MulFrom(_, _, _, _)
MulFrom(a, b, k, carry) ==
    IF k = Len(a) THEN <<>>
    ELSE LET s == carry + SumProd(a, b, k, 0)
         IN  <<s % 256>> \o MulFrom(a, b, k + 1, s \div 256)

\* a * b of two numbers of the same width, wrapped to that width
Mul(a, b) == MulFrom(a, b, 0, 0)

\* time.Second, in nanoseconds
Second == I64(1000000000)

\* math.Min(30.0, float64(count)) back as an int64 (exact below 2^53)
MinThirty(count) == IF SLess(count, I64(30)) THEN count ELSE I64(30)

\* time.Duration(int64(math.Min(30.0, float64(count)))) * time.Second
DelayOf(count) == Mul(MinThirty(count), Second)

(***************************************************************************)
(* The strings of a robots.txt                                             *)
(***************************************************************************)
Keys ==
    {"User-agent", "user-agent", "Disallow", "Allow", "Crawl-delay",
     "# User-agent"}

Values ==
    {"*", "Grawler", "other-bot", "/x", " /y ", "/private", "120", "5", "abc",
     "-5", "-9223372037"}

Join(k, v) == k \o ": " \o v

\* the lines a body is made of
Lines ==
    { Join("User-agent", "*"), Join("user-agent", "Grawler"),
      Join("User-agent", "other-bot"),
      Join("Disallow", "/x"), Join("Allow", "/x"), Join("Disallow", " /y "),
      Join("Crawl-delay", "120"), Join("Crawl-delay", "5"),
      Join("Crawl-delay", "abc"), Join("Crawl-delay", "-5"),
      Join("Crawl-delay", "-9223372037"),
      Join("# User-agent", "*"), "", "Disallow:/x" }

\* len(line) == 0 || line[0] == '#'
IsBlankOrComment(line) == line = "" \/ line = Join("# User-agent", "*")

\* strings.SplitN(line, ": ", 2)
SplitN(line) ==
    IF \E p \in Keys \X Values : Join(p[1], p[2]) = line
    THEN CHOOSE p \in Keys \X Values : Join(p[1], p[2]) = line
    ELSE <<line>>

\* strings.ToLower
ToLower(s) ==
    CASE s = "User-agent" -> "user-agent"
      [] s = "Disallow" -> "disallow"
      [] s = "Allow" -> "allow"
      [] s = "Crawl-delay" -> "crawl-delay"
      [] s = "Grawler" -> "grawler"
      [] s = "# User-agent" -> "# user-agent"
      [] OTHER -> s

\* strings.TrimSpace
TrimSpace(s) == IF s = " /y " THEN "/y" ELSE s

\* strconv.Atoi, on a 64-bit platform
Atoi(s) ==
    CASE s = "120" -> [ok |-> TRUE, n |-> I64(120)]
      [] s = "5" -> [ok |-> TRUE, n |-> I64(5)]
      [] s = "-5" -> [ok |-> TRUE, n |-> I64(-5)]
      [] s = "-9223372037" ->
            [ok |-> TRUE, n |-> <<251, 130, 62, 218, 253, 255, 255, 255>>]
      [] OTHER -> [ok |-> FALSE, n |-> I64(0)]

(***************************************************************************)
(* CrawlRules                                                              *)
(***************************************************************************)
newCrawlRules ==
    [DisallowedPaths |-> {}, AllowedPaths |-> {}, Delay |-> Mul(I64(1), Second)]

\* the mutant: every path passes
TestPermitAll(rules, path) == TRUE

\* the mutant: no allow override
TestNoAllow(rules, path) == path \notin rules.DisallowedPaths

\* CrawlRules.Test
Test(rules, path) ==
    IF path \in rules.AllowedPaths THEN TRUE
    ELSE path \notin rules.DisallowedPaths

(***************************************************************************)
(* fetchCrawlRules: the loop over the lines of the body                    *)
(***************************************************************************)
\* the state of the loop: the rules built so far and the respectRules flag
ParseInit == [rules |-> newCrawlRules, respectRules |-> FALSE]

\* the mutant: a user-agent line of another crawler does not clear the flag
ParseLineNoClear(st, line) ==
    IF IsBlankOrComment(line) THEN st
    ELSE LET components == SplitN(line) IN
         IF Len(components) < 2 THEN st
         ELSE LET directive == ToLower(components[1])
                  value == components[2]
              IN  IF directive = "user-agent"
                  THEN [st EXCEPT !.respectRules =
                            @ \/ value = "*" \/ ToLower(value) = "grawler"]
                  ELSE IF ~st.respectRules THEN st
                  ELSE CASE directive = "allow" ->
                              [st EXCEPT !.rules.AllowedPaths =
                                            @ \cup {TrimSpace(value)}]
                         [] directive = "disallow" ->
                              [st EXCEPT !.rules.DisallowedPaths =
                                            @ \cup {TrimSpace(value)}]
                         [] directive = "crawl-delay" ->
                              LET count == Atoi(value)
                              IN  IF ~count.ok THEN st
                                  ELSE [st EXCEPT !.rules.Delay = DelayOf(count.n)]
                         [] OTHER -> st

\* one pass of the loop body, for one line
ParseLine(st, line) ==
    IF IsBlankOrComment(line) THEN st
    ELSE LET components == SplitN(line) IN
         IF Len(components) < 2 THEN st
         ELSE LET directive == ToLower(components[1])
                  value == components[2]
              IN  IF /\ directive = "user-agent"
                     /\ (value = "*" \/ ToLower(value) = "grawler")
                  THEN [st EXCEPT !.respectRules = TRUE]
                  ELSE LET st1 == IF directive = "user-agent"
                                  THEN [st EXCEPT !.respectRules = FALSE]
                                  ELSE st
                       IN  IF ~st1.respectRules THEN st1
                           ELSE CASE directive = "allow" ->
                                       [st1 EXCEPT !.rules.AllowedPaths =
                                                      @ \cup {TrimSpace(value)}]
                                  [] directive = "disallow" ->
                                       [st1 EXCEPT !.rules.DisallowedPaths =
                                                      @ \cup {TrimSpace(value)}]
                                  [] directive = "crawl-delay" ->
                                       LET count == Atoi(value)
                                       IN  IF ~count.ok THEN st1
                                           ELSE [st1 EXCEPT !.rules.Delay =
                                                               DelayOf(count.n)]
                                  [] OTHER -> st1

RECURSIVE ParseFrom(_, _, _)
ParseFrom(st, body, i) ==
    IF i > Len(body) THEN st ELSE ParseFrom(ParseLine(st, body[i]), body, i + 1)

\* the rules of a whole body (the lines of strings.Split(body, "\n"))
ParseBody(body) == ParseFrom(ParseInit, body, 1).rules

\* the mutant: the upper status bound off by one
fetchCrawlRulesOffByOne(response) ==
    IF response.err THEN [rules |-> newCrawlRules, err |-> TRUE]
    ELSE IF response.status >= 399 \/ response.status < 200
    THEN [rules |-> newCrawlRules, err |-> FALSE]
    ELSE IF response.readErr THEN [rules |-> newCrawlRules, err |-> TRUE]
    ELSE [rules |-> ParseBody(response.body), err |-> FALSE]

\* fetchCrawlRules, given the response of client.Get:
\*   err: a transport error; status: the status code;
\*   readErr: ioutil.ReadAll failed; body: the lines of the body
fetchCrawlRules(response) ==
    IF response.err THEN [rules |-> newCrawlRules, err |-> TRUE]
    ELSE IF response.status > 399 \/ response.status < 200
    THEN [rules |-> newCrawlRules, err |-> FALSE]
    ELSE IF response.readErr THEN [rules |-> newCrawlRules, err |-> TRUE]
    ELSE [rules |-> ParseBody(response.body), err |-> FALSE]

(***************************************************************************)
(* RulesIndex                                                              *)
(***************************************************************************)
\* CrawlRules{}: nil maps and a zero delay
ZeroRules == [DisallowedPaths |-> {}, AllowedPaths |-> {}, Delay |-> I64(0)]

\* NewRulesIndex: make(map[string]CrawlRules)
NewRulesIndex == <<>>

\* Get, when index.rules holds the hostname
\* the mutant: a hit puts fresh default rules in place of the entry
GetCachedResets(index, hostname) ==
    [index |-> [index EXCEPT ![hostname] = newCrawlRules],
     rules |-> newCrawlRules, err |-> FALSE]

GetCached(index, hostname) ==
    [index |-> index, rules |-> index[hostname], err |-> FALSE]

\* the mutant: the entry is written before the error is looked at
GetFetchedStoresFirst(index, hostname, response) ==
    LET fetched == fetchCrawlRules(response)
        stored == (hostname :> fetched.rules) @@ index
    IN  IF fetched.err THEN [index |-> stored, rules |-> ZeroRules, err |-> TRUE]
        ELSE [index |-> stored, rules |-> stored[hostname], err |-> FALSE]

\* Get, when index.rules does not hold the hostname and the robots.txt
\* request has been answered by response
GetFetched(index, hostname, response) ==
    LET fetched == fetchCrawlRules(response)
        stored == (hostname :> fetched.rules) @@ index
    IN  IF fetched.err THEN [index |-> index, rules |-> ZeroRules, err |-> TRUE]
        ELSE [index |-> stored, rules |-> stored[hostname], err |-> FALSE]

\* RulesIndex.DomainCount
DomainCount(index) == Cardinality(DOMAIN index)

(***************************************************************************)
(* The answers of the HTTP client to GET http://<hostname>/robots.txt      *)
(***************************************************************************)
RobotsStatuses == {199, 200, 399, 400, 404}

RobotsBodies ==
    { <<Join("User-agent", "*"), Join("Disallow", "/x")>>,
      <<Join("user-agent", "Grawler"), Join("Crawl-delay", "5")>> }

TransportError == [err |-> TRUE, status |-> 0, readErr |-> FALSE, body |-> <<"">>]

RobotsResponses ==
    {TransportError} \cup
    [err : {FALSE}, status : RobotsStatuses, readErr : BOOLEAN,
     body : RobotsBodies]

(***************************************************************************)
(* Specification SpecIndex: one caller of RulesIndex.Get                   *)
(***************************************************************************)
IndexHosts == {"a.test", "b.test"}

NoCall ==
    [kind |-> "none", host |-> "", response |-> TransportError,
     before |-> NewRulesIndex]

\* the index variables of a run that never calls Get
IdleIndex ==
    [rules |-> NewRulesIndex, pc |-> "idle", host |-> "",
     ret |-> [rules |-> ZeroRules, err |-> FALSE], last |-> NoCall,
     gets |-> [h \in IndexHosts |-> 0], fetches |-> [h \in IndexHosts |-> 0]]

\* the calls of Get made so far
TotalGets == iGets["a.test"] + iGets["b.test"]

\* index.Get(hostname), the hostname cached: returns at once
IndexGetHit(hostname) ==
    /\ iPc = "idle"
    /\ TotalGets < MaxGets
    /\ hostname \in DOMAIN iRules
    /\ LET got == GetCached(iRules, hostname)
       IN  /\ iRules' = got.index
           /\ iRet' = [rules |-> got.rules, err |-> got.err]
    /\ iLast' = [kind |-> "hit", host |-> hostname,
                 response |-> TransportError, before |-> iRules]
    /\ iGets' = [iGets EXCEPT ![hostname] = @ + 1]
    /\ UNCHANGED <<iPc, iHost, iFetches>>
    /\ UNCHANGED restOfIndex

\* index.Get(hostname), the hostname not cached: the request goes out
IndexGetMiss(hostname) ==
    /\ iPc = "idle"
    /\ TotalGets < MaxGets
    /\ hostname \notin DOMAIN iRules
    /\ iPc' = "fetching"
    /\ iHost' = hostname
    /\ iGets' = [iGets EXCEPT ![hostname] = @ + 1]
    /\ iFetches' = [iFetches EXCEPT ![hostname] = @ + 1]
    /\ UNCHANGED <<iRules, iRet, iLast>>
    /\ UNCHANGED restOfIndex

\* the request is answered and Get returns
IndexGetReturn(response) ==
    /\ iPc = "fetching"
    /\ LET got == GetFetched(iRules, iHost, response)
       IN  /\ iRules' = got.index
           /\ iRet' = [rules |-> got.rules, err |-> got.err]
    /\ iLast' = [kind |-> "fetched", host |-> iHost, response |-> response,
                 before |-> iRules]
    /\ iPc' = "idle"
    /\ UNCHANGED <<iHost, iGets, iFetches>>
    /\ UNCHANGED restOfIndex

(***************************************************************************)
(* url.URL and website                                                     *)
(***************************************************************************)
\* url.URL{}
ZeroURL == [Scheme |-> "", Host |-> "", Path |-> ""]

\* website{}
ZeroWebsite == [referrer |-> ZeroURL, URL |-> ZeroURL]

\* the raw links the pages of the model hold
RawLinks ==
    {"/", "/private", "/public", "public", "//b.test/",
     "http://a.test/private", "%zz", "/m1", "/m2", "/m3",
     "//e.test/a", "//e.test/b", "/a"}

\* the values of the -start flag
StartFlags ==
    {"http://a.test/", "http://c.test/", "http://d.test/", "/public", "%zz"}

\* url.Parse(link)
ParseURL(link) ==
    CASE link = "/" -> [ok |-> TRUE, url |-> [ZeroURL EXCEPT !.Path = "/"]]
      [] link \in {"/m1", "/m2", "/m3", "/a"} ->
            [ok |-> TRUE, url |-> [ZeroURL EXCEPT !.Path = link]]
      [] link = "http://a.test/" ->
            [ok |-> TRUE,
             url |-> [Scheme |-> "http", Host |-> "a.test", Path |-> "/"]]
      [] link = "http://c.test/" ->
            [ok |-> TRUE,
             url |-> [Scheme |-> "http", Host |-> "c.test", Path |-> "/"]]
      [] link = "http://d.test/" ->
            [ok |-> TRUE,
             url |-> [Scheme |-> "http", Host |-> "d.test", Path |-> "/"]]
      [] link = "//e.test/a" ->
            [ok |-> TRUE, url |-> [Scheme |-> "", Host |-> "e.test", Path |-> "/a"]]
      [] link = "//e.test/b" ->
            [ok |-> TRUE, url |-> [Scheme |-> "", Host |-> "e.test", Path |-> "/b"]]
      [] link = "/private" ->
            [ok |-> TRUE, url |-> [ZeroURL EXCEPT !.Path = "/private"]]
      [] link = "/public" ->
            [ok |-> TRUE, url |-> [ZeroURL EXCEPT !.Path = "/public"]]
      [] link = "public" ->
            [ok |-> TRUE, url |-> [ZeroURL EXCEPT !.Path = "public"]]
      [] link = "//b.test/" ->
            [ok |-> TRUE, url |-> [Scheme |-> "", Host |-> "b.test", Path |-> "/"]]
      [] link = "http://a.test/private" ->
            [ok |-> TRUE,
             url |-> [Scheme |-> "http", Host |-> "a.test", Path |-> "/private"]]
      [] OTHER -> [ok |-> FALSE, url |-> ZeroURL]

\* path[0] == '/'
HasLeadingSlash(path) ==
    path \in {"/", "/private", "/public", "/m1", "/m2", "/m3", "/a", "/b"}

\* URL.String()
String(u) ==
    (IF u.Scheme # "" THEN u.Scheme \o ":" ELSE "")
    \o (IF (u.Scheme # "" \/ u.Host # "") /\ (u.Host # "" \/ u.Path # "")
        THEN "//" ELSE "")
    \o u.Host
    \o (IF u.Path # "" /\ ~HasLeadingSlash(u.Path) /\ u.Host # ""
        THEN "/" ELSE "")
    \o u.Path

\* URL.Hostname(): the host without its port (no URL of the model has one)
Hostname(u) == u.Host

(***************************************************************************)
(* The web the crawler runs against                                        *)
(***************************************************************************)
\* parsedURL, err := url.Parse(*firstURL) in main
parsedURL == ParseURL(firstURL).url

\* the -start flag of the crawler with several agents, parsed
initialURL == [Scheme |-> "http", Host |-> "a.test", Path |-> "/"]

\* collectlinks.All(response.Body) for the page at a URL string
PageLinks(fullURL) ==
    CASE fullURL = "http://a.test/" -> <<"/private", "/public", "%zz", "public">>
      [] fullURL = "http://a.test/public" -> <<"/", "//b.test/">>
      [] fullURL = "http://b.test/" -> <<"http://a.test/private">>
      [] fullURL = "http://c.test/" -> <<"/m1", "/m2", "/m3">>
      [] fullURL = "http://d.test/" -> <<"//e.test/a", "//e.test/b">>
      [] fullURL = "http://e.test/b" -> <<"/a">>
      [] OTHER -> <<>>

PageStatuses == {199, 200, 399, 400, 404}

\* the pages of c.test, which answer 200 when they answer
SteadyPages ==
    {"http://c.test/", "http://c.test/m1", "http://c.test/m2",
     "http://c.test/m3"}

\* the pages reached from d.test, which answer 200 when they answer
LinkedPages == {"http://d.test/", "http://e.test/a", "http://e.test/b"}

\* the answers client.Get(toCrawl.String()) can give
PageResponses(fullURL) ==
    {[err |-> TRUE, status |-> 0, links |-> <<>>]} \cup
    [err : {FALSE},
     status : IF fullURL \in SteadyPages \cup LinkedPages THEN {200}
              ELSE PageStatuses,
     links : {PageLinks(fullURL)}]

\* the robots.txt a host serves
RobotsBodyOf(hostname) ==
    IF hostname = "a.test"
    THEN <<Join("User-agent", "*"), Join("Disallow", "/private")>>
    ELSE <<Join("user-agent", "Grawler"), Join("Crawl-delay", "5")>>

\* the answers client.Get("http://<hostname>/robots.txt") can give; without
\* a host the client refuses the request (http: no Host in request URL)
RobotsAnswers(hostname) ==
    IF hostname = "" THEN {TransportError}
    ELSE {TransportError} \cup
         [err : {FALSE}, status : RobotsStatuses, readErr : BOOLEAN,
          body : {RobotsBodyOf(hostname)}]

(***************************************************************************)
(* crawl: the batch built from the links of a page                         *)
(***************************************************************************)
\* the mutant: the appended website names itself as its referrer
NormalizeLinkSelfReferrer(toCrawl, link) ==
    LET parsed == ParseURL(link)
        withHost == IF Hostname(parsed.url) = ""
                    THEN [parsed.url EXCEPT !.Host = Hostname(toCrawl.URL)]
                    ELSE parsed.url
        withScheme == IF withHost.Scheme = ""
                      THEN [withHost EXCEPT !.Scheme = "http"]
                      ELSE withHost
    IN  IF ~parsed.ok THEN <<>>
        ELSE <<[referrer |-> withScheme, URL |-> withScheme]>>

\* the mutant: the appended website carries no referrer
NormalizeLinkNoReferrer(toCrawl, link) ==
    LET parsed == ParseURL(link)
        withHost == IF Hostname(parsed.url) = ""
                    THEN [parsed.url EXCEPT !.Host = Hostname(toCrawl.URL)]
                    ELSE parsed.url
        withScheme == IF withHost.Scheme = ""
                      THEN [withHost EXCEPT !.Scheme = "http"]
                      ELSE withHost
    IN  IF ~parsed.ok THEN <<>>
        ELSE <<[referrer |-> ZeroURL, URL |-> withScheme]>>

\* the body of the loop over allLinks, for one link: the websites appended
NormalizeLink(toCrawl, link) ==
    LET parsed == ParseURL(link)
        withHost == IF Hostname(parsed.url) = ""
                    THEN [parsed.url EXCEPT !.Host = Hostname(toCrawl.URL)]
                    ELSE parsed.url
        withScheme == IF withHost.Scheme = ""
                      THEN [withHost EXCEPT !.Scheme = "http"]
                      ELSE withHost
    IN  IF ~parsed.ok THEN <<>>
        ELSE <<[referrer |-> toCrawl.URL, URL |-> withScheme]>>

RECURSIVE AppendLinks(_, _, _, _)
AppendLinks(urlsToVet, toCrawl, allLinks, i) ==
    IF i > Len(allLinks) THEN urlsToVet
    ELSE AppendLinks(urlsToVet \o NormalizeLink(toCrawl, allLinks[i]),
                     toCrawl, allLinks, i + 1)

\* urlsToVet := make([]website, len(allLinks)), then one append per link
\* that parses
BuildBatch(toCrawl, allLinks) ==
    AppendLinks([i \in 1..Len(allLinks) |-> ZeroWebsite], toCrawl, allLinks, 1)

(***************************************************************************)
(* main: the seed is parsed and the manager and the printer are started    *)
(***************************************************************************)
\* main up to the wait for a signal: it returns when url.Parse fails, and
\* otherwise manager queues the seed and printer starts its goroutines
main ==
    /\ mainPc = "start"
    /\ mainPc' = IF ParseURL(firstURL).ok THEN "running" ELSE "exited"
    /\ vettingQueue' =
          IF ParseURL(firstURL).ok
          THEN <<<<[referrer |-> ZeroURL, URL |-> parsedURL]>>>>
          ELSE vettingQueue
    /\ UNCHANGED <<firstURL, visited, rulesIndex, finished, mPc, mBatch, mIdx,
                   workers, prPc, prSite, graph, mutex, admission,
                   robotsFetches>>
    /\ UNCHANGED restOfCrawl

(***************************************************************************)
(* manager: the admission loop                                             *)
(***************************************************************************)
\* the website the loop is at
toVet == mBatch[mIdx]

\* the mutant: the visited set is never consulted
AlreadyVisitedNever(fullURL) == FALSE

\* _, ok := visited[fullURL]
AlreadyVisited(fullURL) == fullURL \in visited

\* the history entry of a URL string: how often the loop met it, how often it
\* called rulesIndex.Get for it, and what became of it
Met(fullURL) ==
    IF fullURL \in DOMAIN admission
    THEN [admission EXCEPT ![fullURL].seen = @ + 1]
    ELSE (fullURL :> [seen |-> 1, lookups |-> 0, outcome |-> "met"]) @@ admission

Looked(adm, fullURL, outcome) ==
    [adm EXCEPT ![fullURL].lookups = @ + 1, ![fullURL].outcome = outcome]

\* the mutant: the loop moves on only once every crawl goroutine it
\* started has returned
AdvanceAfterCrawl ==
    /\ \A w \in DOMAIN workers : workers[w].pc = "done"
    /\ mIdx' = mIdx + 1
    /\ mPc' = IF mIdx + 1 > Len(mBatch) THEN "recv" ELSE "range"
    /\ UNCHANGED mBatch

\* the loop moves to the next website of the batch, or back to the receive
Advance ==
    /\ mIdx' = mIdx + 1
    /\ mPc' = IF mIdx + 1 > Len(mBatch) THEN "recv" ELSE "range"
    /\ UNCHANGED mBatch

\* what the loop does once Get has returned: "error", "denied" or "dispatched"
Verdict(got, site) ==
    IF got.err THEN "error"
    ELSE IF ~Test(got.rules, site.URL.Path) THEN "denied"
    ELSE "dispatched"

\* response, err of crawl before client.Get has returned and after crawl has
\* returned; also what crawl has printed when it has printed nothing
NoResponse == [err |-> FALSE, status |-> 0]

\* the mutant: the goroutine calls crawl without waiting for a timer
StartWorkerNoTimer(got, site) ==
    Append(workers,
           [toCrawl |-> site, delay |-> got.rules.Delay, pc |-> "get",
            response |-> NoResponse, printed |-> NoResponse,
            urlsToVet |-> <<>>, result |-> "none"])

\* go func(toCrawl website) { <-time.NewTimer(rules.Delay).C; crawl(...) }
StartWorker(got, site) ==
    Append(workers,
           [toCrawl |-> site, delay |-> got.rules.Delay, pc |-> "timer",
            response |-> NoResponse, printed |-> NoResponse,
            urlsToVet |-> <<>>, result |-> "none"])

\* for _, toVet := range <-vettingQueue: a batch is received
ManagerReceive ==
    /\ mPc = "recv"
    /\ vettingQueue # <<>>
    /\ mBatch' = Head(vettingQueue)
    /\ vettingQueue' = Tail(vettingQueue)
    /\ mIdx' = 1
    /\ mPc' = IF Len(Head(vettingQueue)) = 0 THEN "recv" ELSE "range"
    /\ UNCHANGED <<visited, rulesIndex, finished, workers, prPc, prSite, graph,
                   mutex, admission, robotsFetches>>
    /\ UNCHANGED <<firstURL, mainPc>>
    /\ UNCHANGED restOfCrawl

\* one pass of the loop body for a URL string already visited
ManagerSkip ==
    /\ mPc = "range"
    /\ AlreadyVisited(String(toVet.URL))
    /\ admission' = Met(String(toVet.URL))
    /\ Advance
    /\ UNCHANGED <<visited, rulesIndex, vettingQueue, finished, workers, prPc,
                   prSite, graph, mutex, robotsFetches>>
    /\ UNCHANGED <<firstURL, mainPc>>
    /\ UNCHANGED restOfCrawl

\* one pass of the loop body for a new URL string whose hostname is cached
ManagerAdmitCached ==
    /\ mPc = "range"
    /\ ~AlreadyVisited(String(toVet.URL))
    /\ Hostname(toVet.URL) \in DOMAIN rulesIndex
    /\ visited' = visited \cup {String(toVet.URL)}
    /\ LET got == GetCached(rulesIndex, Hostname(toVet.URL))
       IN  /\ admission' =
                 Looked(Met(String(toVet.URL)), String(toVet.URL),
                        Verdict(got, toVet))
           /\ workers' = IF Verdict(got, toVet) = "dispatched"
                         THEN StartWorker(got, toVet) ELSE workers
    /\ Advance
    /\ UNCHANGED <<rulesIndex, vettingQueue, finished, prPc, prSite, graph,
                   mutex, robotsFetches>>
    /\ UNCHANGED <<firstURL, mainPc>>
    /\ UNCHANGED restOfCrawl

\* the mutant: the URL string is not put in visited before the lookup
ManagerAdmitFetchNoInsert ==
    /\ mPc = "range"
    /\ ~AlreadyVisited(String(toVet.URL))
    /\ Hostname(toVet.URL) \notin DOMAIN rulesIndex
    /\ admission' = Looked(Met(String(toVet.URL)), String(toVet.URL), "fetching")
    /\ robotsFetches' =
          IF Hostname(toVet.URL) \in DOMAIN robotsFetches
          THEN [robotsFetches EXCEPT ![Hostname(toVet.URL)] = @ + 1]
          ELSE (Hostname(toVet.URL) :> 1) @@ robotsFetches
    /\ mPc' = "fetching"
    /\ UNCHANGED <<visited, rulesIndex, vettingQueue, finished, mBatch, mIdx,
                   workers, prPc, prSite, graph, mutex>>
    /\ UNCHANGED <<firstURL, mainPc>>
    /\ UNCHANGED restOfCrawl

\* the loop body for a new URL string whose hostname is not cached, up to
\* the robots.txt request inside rulesIndex.Get
ManagerAdmitFetch ==
    /\ mPc = "range"
    /\ ~AlreadyVisited(String(toVet.URL))
    /\ Hostname(toVet.URL) \notin DOMAIN rulesIndex
    /\ visited' = visited \cup {String(toVet.URL)}
    /\ admission' = Looked(Met(String(toVet.URL)), String(toVet.URL), "fetching")
    /\ robotsFetches' =
          IF Hostname(toVet.URL) \in DOMAIN robotsFetches
          THEN [robotsFetches EXCEPT ![Hostname(toVet.URL)] = @ + 1]
          ELSE (Hostname(toVet.URL) :> 1) @@ robotsFetches
    /\ mPc' = "fetching"
    /\ UNCHANGED <<rulesIndex, vettingQueue, finished, mBatch, mIdx, workers,
                   prPc, prSite, graph, mutex>>
    /\ UNCHANGED <<firstURL, mainPc>>
    /\ UNCHANGED restOfCrawl

\* the robots.txt request is answered: Get returns and the loop body ends
ManagerRobotsAnswer ==
    /\ mPc = "fetching"
    /\ \E response \in RobotsAnswers(Hostname(toVet.URL)) :
       LET got == GetFetched(rulesIndex, Hostname(toVet.URL), response)
       IN  /\ rulesIndex' = got.index
           /\ admission' =
                 [admission EXCEPT ![String(toVet.URL)].outcome =
                                       Verdict(got, toVet)]
           /\ workers' = IF Verdict(got, toVet) = "dispatched"
                         THEN StartWorker(got, toVet) ELSE workers
    /\ Advance
    /\ UNCHANGED <<visited, vettingQueue, finished, prPc, prSite, graph, mutex,
                   robotsFetches>>
    /\ UNCHANGED <<firstURL, mainPc>>
    /\ UNCHANGED restOfCrawl

(***************************************************************************)
(* crawl: one goroutine per dispatched website                             *)
(***************************************************************************)
\* the mutant: a GET waits until no other GET to its hostname is out
TimerFiresPerHostname(w) ==
    /\ workers[w].pc = "timer"
    /\ \A v \in DOMAIN workers :
          workers[v].pc = "get" =>
             Hostname(workers[v].toCrawl.URL) # Hostname(workers[w].toCrawl.URL)
    /\ workers' = [workers EXCEPT ![w].pc = "get"]
    /\ UNCHANGED <<visited, rulesIndex, vettingQueue, finished, mPc, mBatch,
                   mIdx, prPc, prSite, graph, mutex, admission, robotsFetches>>
    /\ UNCHANGED <<firstURL, mainPc>>
    /\ UNCHANGED restOfCrawl

\* the timer of the goroutine fires and crawl sends its GET
TimerFires(w) ==
    /\ workers[w].pc = "timer"
    /\ workers' = [workers EXCEPT ![w].pc = "get"]
    /\ UNCHANGED <<visited, rulesIndex, vettingQueue, finished, mPc, mBatch,
                   mIdx, prPc, prSite, graph, mutex, admission, robotsFetches>>
    /\ UNCHANGED <<firstURL, mainPc>>
    /\ UNCHANGED restOfCrawl

\* the mutant: crawl goes on whatever the GET returned
PageAnswerNoChecks(w, response) ==
    /\ workers[w].pc = "get"
    /\ workers' =
          [workers EXCEPT
             ![w].pc = "sendVetting",
             ![w].response = [err |-> response.err, status |-> response.status],
             ![w].urlsToVet = BuildBatch(workers[w].toCrawl, response.links)]
    /\ UNCHANGED <<visited, rulesIndex, vettingQueue, finished, mPc, mBatch,
                   mIdx, prPc, prSite, graph, mutex, admission, robotsFetches>>
    /\ UNCHANGED <<firstURL, mainPc>>
    /\ UNCHANGED restOfCrawl

\* the GET is answered: crawl prints the error or the bad status and
\* returns, and otherwise builds urlsToVet
PageAnswer(w, response) ==
    /\ workers[w].pc = "get"
    /\ workers' =
          IF response.err \/ response.status > 399 \/ response.status < 200
          THEN [workers EXCEPT
                  ![w].pc = "done", ![w].result = "failed",
                  ![w].printed = [err |-> response.err,
                                  status |-> response.status]]
          ELSE [workers EXCEPT
                  ![w].pc = "sendVetting",
                  ![w].response = [err |-> response.err,
                                   status |-> response.status],
                  ![w].urlsToVet = BuildBatch(workers[w].toCrawl, response.links)]
    /\ UNCHANGED <<visited, rulesIndex, vettingQueue, finished, mPc, mBatch,
                   mIdx, prPc, prSite, graph, mutex, admission, robotsFetches>>
    /\ UNCHANGED <<firstURL, mainPc>>
    /\ UNCHANGED restOfCrawl

\* the mutant: the send does not wait for room in the channel
SendVettingNoWait(w) ==
    /\ workers[w].pc = "sendVetting"
    /\ vettingQueue' = Append(vettingQueue, workers[w].urlsToVet)
    /\ workers' = [workers EXCEPT ![w].pc = "sendFinished"]
    /\ UNCHANGED <<visited, rulesIndex, finished, mPc, mBatch, mIdx, prPc,
                   prSite, graph, mutex, admission, robotsFetches>>
    /\ UNCHANGED <<firstURL, mainPc>>
    /\ UNCHANGED restOfCrawl

\* vettingQueue <- urlsToVet
SendVetting(w) ==
    /\ workers[w].pc = "sendVetting"
    /\ Len(vettingQueue) < QueueSize
    /\ vettingQueue' = Append(vettingQueue, workers[w].urlsToVet)
    /\ workers' = [workers EXCEPT ![w].pc = "sendFinished"]
    /\ UNCHANGED <<visited, rulesIndex, finished, mPc, mBatch, mIdx, prPc,
                   prSite, graph, mutex, admission, robotsFetches>>
    /\ UNCHANGED <<firstURL, mainPc>>
    /\ UNCHANGED restOfCrawl

\* finished <- toCrawl, and crawl returns
SendFinished(w) ==
    /\ workers[w].pc = "sendFinished"
    /\ Len(finished) < QueueSize
    /\ finished' = Append(finished, workers[w].toCrawl)
    /\ workers' = [workers EXCEPT ![w].pc = "done", ![w].result = "fetched",
                                  ![w].response = NoResponse]
    /\ UNCHANGED <<visited, rulesIndex, vettingQueue, mPc, mBatch, mIdx, prPc,
                   prSite, graph, mutex, admission, robotsFetches>>
    /\ UNCHANGED <<firstURL, mainPc>>
    /\ UNCHANGED restOfCrawl

(***************************************************************************)
(* printer: the consumer of finished and the periodic writer               *)
(***************************************************************************)
\* website := <-finished
PrinterReceive ==
    /\ prPc = "recv"
    /\ finished # <<>>
    /\ prSite' = Head(finished)
    /\ finished' = Tail(finished)
    /\ prPc' = "draw"
    /\ UNCHANGED <<visited, rulesIndex, vettingQueue, mPc, mBatch, mIdx,
                   workers, graph, mutex, admission, robotsFetches>>
    /\ UNCHANGED <<firstURL, mainPc>>
    /\ UNCHANGED restOfCrawl

\* the rest of the consumer's loop body: the subgraph, the node and the edge
\* are added with the mutex held, and the mutex is released
PrinterDraw ==
    /\ prPc = "draw"
    /\ mutex = "free"
    /\ graph' = graph \cup
          {[node |-> String(prSite.URL),
            from |-> IF Hostname(prSite.referrer) = "" THEN "start"
                     ELSE String(prSite.referrer)]}
    /\ prPc' = "recv"
    /\ UNCHANGED <<visited, rulesIndex, vettingQueue, finished, mPc, mBatch,
                   mIdx, workers, prSite, mutex, admission, robotsFetches>>
    /\ UNCHANGED <<firstURL, mainPc>>
    /\ UNCHANGED restOfCrawl

\* a tick of the periodic writer: mutex.Lock(), defer mutex.Unlock() and
\* writeGraph; the deferred unlock waits for the goroutine's function to
\* return, which the loop never does
TickerWrite ==
    /\ mainPc = "running"
    /\ mutex = "free"
    /\ mutex' = "ticker"
    /\ UNCHANGED <<visited, rulesIndex, vettingQueue, finished, mPc, mBatch,
                   mIdx, workers, prPc, prSite, graph, admission, robotsFetches>>
    /\ UNCHANGED <<firstURL, mainPc>>
    /\ UNCHANGED restOfCrawl

\* the crawl variables of a run that starts no crawler
IdleCrawl ==
    [firstURL |-> "", mainPc |-> "exited", visited |-> {}, rulesIndex |-> NewRulesIndex, vettingQueue |-> <<>>,
     finished |-> <<>>, mPc |-> "recv", mBatch |-> <<>>, mIdx |-> 1,
     workers |-> <<>>, prPc |-> "recv", prSite |-> ZeroWebsite, graph |-> {},
     mutex |-> "free", admission |-> <<>>, robotsFetches |-> <<>>]

(***************************************************************************)
(* The crawler with -agents vet goroutines and crawl goroutines that share *)
(* the visited and visitingRules sync.Maps                                 *)
(***************************************************************************)
\* the -agents flag
Agents == 2

AgentIds == 1..Agents

\* collectlinks.All(response.Body) for the page at a URL string
VetPageLinks(fullURL) ==
    CASE fullURL = "http://a.test/" -> <<"/public", "//b.test/">>
      [] fullURL = "http://a.test/public" -> <<"//b.test/">>
      [] OTHER -> <<>>

\* the loop over allLinks of this crawl, for one link: the URLs appended
VetNormalizeLink(toCrawl, link) ==
    LET parsed == ParseURL(link)
        withHost == IF Hostname(parsed.url) = ""
                    THEN [parsed.url EXCEPT !.Host = Hostname(toCrawl)]
                    ELSE parsed.url
        withScheme == IF withHost.Scheme = ""
                      THEN [withHost EXCEPT !.Scheme = "http"]
                      ELSE withHost
    IN  IF ~parsed.ok THEN <<>> ELSE <<withScheme>>

RECURSIVE VetAppendLinks(_, _, _, _)
VetAppendLinks(urlsToVet, toCrawl, allLinks, i) ==
    IF i > Len(allLinks) THEN urlsToVet
    ELSE VetAppendLinks(urlsToVet \o VetNormalizeLink(toCrawl, allLinks[i]),
                        toCrawl, allLinks, i + 1)

\* urlsToVet := make([]url.URL, len(allLinks)), then one append per link
VetBuildBatch(toCrawl, allLinks) ==
    VetAppendLinks([i \in 1..Len(allLinks) |-> ZeroURL], toCrawl, allLinks, 1)

\* the URL vet goroutine a is at
VetURL(a) == vets[a].batch[vets[a].idx]

\* continue, or the end of the loop body: on to the next URL of the batch
VetAdvance(a) ==
    [vets EXCEPT ![a].idx = @ + 1,
                 ![a].pc = IF vets[a].idx + 1 > Len(vets[a].batch)
                           THEN "recv" ELSE "loadVisited"]

Count(history, key) == IF key \in DOMAIN history THEN history[key] ELSE 0

Counted(history, key) == (key :> Count(history, key) + 1) @@ history

\* for _, toVet := range <-vettingQueue
VetReceive(a) ==
    /\ vets[a].pc = "recv"
    /\ vVetting # <<>>
    /\ vets' = [vets EXCEPT
                  ![a].batch = Head(vVetting),
                  ![a].idx = 1,
                  ![a].pc = IF Len(Head(vVetting)) = 0 THEN "recv"
                            ELSE "loadVisited"]
    /\ vVetting' = Tail(vVetting)
    /\ UNCHANGED <<vVisited, visitingRules, crawlingQueue, vFinished, crawls,
                   pendingSends, vFetches, vPushes>>
    /\ UNCHANGED restOfVet

\* visited.Load(toVet.String())
VetLoadVisited(a) ==
    /\ vets[a].pc = "loadVisited"
    /\ vets' = IF String(VetURL(a)) \in vVisited THEN VetAdvance(a)
               ELSE [vets EXCEPT ![a].pc = "storeVisited"]
    /\ UNCHANGED <<vVisited, visitingRules, vVetting, crawlingQueue, vFinished,
                   crawls, pendingSends, vFetches, vPushes>>
    /\ UNCHANGED restOfVet

\* visited.Store(toVet.String(), true), and the test of the hostname
VetStoreVisited(a) ==
    /\ vets[a].pc = "storeVisited"
    /\ vVisited' = vVisited \cup {String(VetURL(a))}
    /\ vets' = IF Hostname(VetURL(a)) = "" THEN VetAdvance(a)
               ELSE [vets EXCEPT ![a].pc = "loadRules"]
    /\ UNCHANGED <<visitingRules, vVetting, crawlingQueue, vFinished, crawls,
                   pendingSends, vFetches, vPushes>>
    /\ UNCHANGED restOfVet

\* visitingRules.Load(hostname), and on a miss the robots.txt request of
\* robots.FetchCrawlRules
VetLoadRules(a) ==
    /\ vets[a].pc = "loadRules"
    /\ IF Hostname(VetURL(a)) \in DOMAIN visitingRules
       THEN /\ vets' = [vets EXCEPT ![a].pc = "reloadRules"]
            /\ UNCHANGED vFetches
       ELSE /\ vets' = [vets EXCEPT ![a].pc = "fetching"]
            /\ vFetches' =
                  [vFetches EXCEPT !.sent = Counted(@, Hostname(VetURL(a)))]
    /\ UNCHANGED <<vVisited, visitingRules, vVetting, crawlingQueue, vFinished,
                   crawls, pendingSends, vPushes>>
    /\ UNCHANGED restOfVet

\* the robots.txt request is answered and FetchCrawlRules returns
VetRobotsAnswer(a) ==
    /\ vets[a].pc = "fetching"
    /\ \E response \in RobotsAnswers(Hostname(VetURL(a))) :
          LET fetched == fetchCrawlRules(response)
          IN  IF fetched.err
              THEN /\ vets' = VetAdvance(a)
                   /\ vFetches' =
                         [vFetches EXCEPT
                            !.failed = Counted(@, Hostname(VetURL(a)))]
              ELSE /\ vets' = [vets EXCEPT ![a].pc = "storeRules",
                                           ![a].crawlRules = fetched.rules]
                   /\ UNCHANGED vFetches
    /\ UNCHANGED <<vVisited, visitingRules, vVetting, crawlingQueue, vFinished,
                   crawls, pendingSends, vPushes>>
    /\ UNCHANGED restOfVet

\* visitingRules.Store(hostname, crawlRules)
VetStoreRules(a) ==
    /\ vets[a].pc = "storeRules"
    /\ visitingRules' =
          (Hostname(VetURL(a)) :> vets[a].crawlRules) @@ visitingRules
    /\ vets' = [vets EXCEPT ![a].pc = "reloadRules"]
    /\ UNCHANGED <<vVisited, vVetting, crawlingQueue, vFinished, crawls,
                   pendingSends, vFetches, vPushes>>
    /\ UNCHANGED restOfVet

\* the second visitingRules.Load(hostname) and the test of the path
VetReloadRules(a) ==
    /\ vets[a].pc = "reloadRules"
    /\ vets' =
          IF Hostname(VetURL(a)) \notin DOMAIN visitingRules THEN VetAdvance(a)
          ELSE LET rules == visitingRules[Hostname(VetURL(a))]
               IN  IF VetURL(a).Path \in rules.AllowedPaths
                   THEN [vets EXCEPT ![a].pc = "push"]
                   ELSE IF VetURL(a).Path \in rules.DisallowedPaths
                   THEN VetAdvance(a)
                   ELSE [vets EXCEPT ![a].pc = "push"]
    /\ UNCHANGED <<vVisited, visitingRules, vVetting, crawlingQueue, vFinished,
                   crawls, pendingSends, vFetches, vPushes>>
    /\ UNCHANGED restOfVet

\* crawlingQueue <- toVet
VetPush(a) ==
    /\ vets[a].pc = "push"
    /\ Len(crawlingQueue) < QueueSize
    /\ crawlingQueue' = Append(crawlingQueue, VetURL(a))
    /\ vPushes' = Counted(vPushes, String(VetURL(a)))
    /\ vets' = VetAdvance(a)
    /\ UNCHANGED <<vVisited, visitingRules, vVetting, vFinished, crawls,
                   pendingSends, vFetches>>
    /\ UNCHANGED restOfVet

\* toCrawl := <-crawlingQueue, the sleep, and the GET is sent
CrawlReceive(c) ==
    /\ crawls[c].pc = "recv"
    /\ crawlingQueue # <<>>
    /\ crawls' = [crawls EXCEPT ![c].pc = "get", ![c].toCrawl = Head(crawlingQueue)]
    /\ crawlingQueue' = Tail(crawlingQueue)
    /\ UNCHANGED <<vVisited, visitingRules, vVetting, vFinished, vets,
                   pendingSends, vFetches, vPushes>>
    /\ UNCHANGED restOfVet

\* the GET is answered: continue on an error or a bad status; otherwise the
\* batch is built and handed to a new goroutine that sends it
CrawlAnswer(c) ==
    /\ crawls[c].pc = "get"
    /\ \E response \in
            {[err |-> TRUE, status |-> 0]} \cup [err : {FALSE}, status : PageStatuses] :
          IF response.err \/ response.status > 399 \/ response.status < 200
          THEN /\ crawls' = [crawls EXCEPT ![c].pc = "recv"]
               /\ UNCHANGED pendingSends
          ELSE /\ crawls' = [crawls EXCEPT ![c].pc = "finish"]
               /\ pendingSends' =
                     Append(pendingSends,
                            VetBuildBatch(crawls[c].toCrawl,
                                          VetPageLinks(String(crawls[c].toCrawl))))
    /\ UNCHANGED <<vVisited, visitingRules, vVetting, crawlingQueue, vFinished,
                   vets, vFetches, vPushes>>
    /\ UNCHANGED restOfVet

\* finished <- website{hostname: toCrawl.Hostname(), path: toCrawl.Path}
CrawlFinish(c) ==
    /\ crawls[c].pc = "finish"
    /\ Len(vFinished) < QueueSize
    /\ vFinished' =
          Append(vFinished, [hostname |-> Hostname(crawls[c].toCrawl),
                             path |-> crawls[c].toCrawl.Path])
    /\ crawls' = [crawls EXCEPT ![c].pc = "recv"]
    /\ UNCHANGED <<vVisited, visitingRules, vVetting, crawlingQueue, vets,
                   pendingSends, vFetches, vPushes>>
    /\ UNCHANGED restOfVet

\* go func() { vettingQueue <- urlsToVet }(): one of the waiting sends
SenderSend(i) ==
    /\ Len(vVetting) < QueueSize
    /\ vVetting' = Append(vVetting, pendingSends[i])
    /\ pendingSends' =
          [j \in 1..(Len(pendingSends) - 1) |->
              IF j < i THEN pendingSends[j] ELSE pendingSends[j + 1]]
    /\ UNCHANGED <<vVisited, visitingRules, crawlingQueue, vFinished, vets,
                   crawls, vFetches, vPushes>>
    /\ UNCHANGED restOfVet

\* display: website := <-finished
Display ==
    /\ vFinished # <<>>
    /\ vFinished' = Tail(vFinished)
    /\ UNCHANGED <<vVisited, visitingRules, vVetting, crawlingQueue, vets,
                   crawls, pendingSends, vFetches, vPushes>>
    /\ UNCHANGED restOfVet

\* the variables of a run that starts no vet goroutine
IdleVet ==
    [vVisited |-> {}, visitingRules |-> <<>>, vVetting |-> <<>>,
     crawlingQueue |-> <<>>, vFinished |-> <<>>,
     vets |-> [a \in AgentIds |->
                 [pc |-> "recv", batch |-> <<>>, idx |-> 1,
                  crawlRules |-> ZeroRules]],
     crawls |-> [c \in AgentIds |-> [pc |-> "recv", toCrawl |-> ZeroURL]],
     pendingSends |-> <<>>,
     vFetches |-> [sent |-> <<>>, failed |-> <<>>], vPushes |-> <<>>]

(***************************************************************************)
(* Specification SpecTest: CrawlRules.Test on every rule set and path      *)
(***************************************************************************)
TestPaths == {"/bad", "/really-bad", "/this-should-work"}

\* the Test variables of a run that never calls Test
IdleTest == [rules |-> newCrawlRules, path |-> "", done |-> FALSE, result |-> FALSE]

\* rules.Test(path)
CallTest ==
    /\ ~tDone
    /\ tDone' = TRUE
    /\ tResult' = Test(tRules, tPath)
    /\ UNCHANGED <<tRules, tPath>>
    /\ UNCHANGED restOfTest

(***************************************************************************)
(* Specification SpecParse: the line loop, one line per step               *)
(***************************************************************************)
Bodies == UNION { [1..n -> Lines] : n \in 1..MaxLines }

\* the loop variables of a run that parses nothing
IdleParse == [body |-> <<>>, idx |-> 1, state |-> ParseInit, prev |-> ParseInit]

\* one iteration of: for _, line := range strings.Split(string(body), "\n")
ParseNext ==
    /\ pIdx <= Len(pBody)
    /\ pPrev' = pState
    /\ pState' = ParseLine(pState, pBody[pIdx])
    /\ pIdx' = pIdx + 1
    /\ UNCHANGED pBody
    /\ UNCHANGED restOfParse

(***************************************************************************)
(* Claims on CrawlRules.Test (SpecTest)                                    *)
(***************************************************************************)
\* C3: once rules.Test(path) has returned, its result is true exactly when
\* path is in AllowedPaths or path is not in DisallowedPaths, for every path
\* and every pair of sets (an allowed path passes even when it is also
\* disallowed).
C3_TestAllowedOrNotDisallowed ==
    tDone =>
        (tResult <=>
            (tPath \in tRules.AllowedPaths \/ tPath \notin tRules.DisallowedPaths))

\* Test has returned true for a path that is both allowed and disallowed
C3_Witness ==
    /\ tDone
    /\ tResult
    /\ tPath \in tRules.AllowedPaths
    /\ tPath \in tRules.DisallowedPaths

(***************************************************************************)
(* Claims on the line loop (SpecParse)                                     *)
(***************************************************************************)
\* the line the last step read
LastLine == pBody[pIdx - 1]

\* C7: the delay of the rules the parser builds is never negative and never
\* above 30 seconds.
C7_DelayWithinZeroAndThirty ==
    /\ ~SLess(pState.rules.Delay, I64(0))
    /\ ~SLess(Mul(I64(30), Second), pState.rules.Delay)

\* the crawl-delay values that are integers, with the integer
IntegerDelays ==
    { [text |-> "120", n |-> I64(120)],
      [text |-> "5", n |-> I64(5)],
      [text |-> "-5", n |-> I64(-5)],
      [text |-> "-9223372037",
       n |-> <<251, 130, 62, 218, 253, 255, 255, 255>>] }

WideBytes == Int64Bytes + 4

\* min(30, n) seconds in nanoseconds, on 12 bytes: no wrap below 2^95
ExactSeconds(n) ==
    Mul(SignExtend(IF SLess(n, I64(30)) THEN n ELSE I64(30), WideBytes),
        SignExtend(Second, WideBytes))

\* C8: while the flag is true, a crawl-delay line whose value is the integer
\* n sets the delay to min(30, n) seconds, and one whose value is no integer
\* leaves the delay as it was.
C8_CrawlDelayIsMinThirty ==
    (pIdx > 1 /\ pPrev.respectRules) =>
        /\ \A d \in IntegerDelays :
              LastLine = Join("Crawl-delay", d.text) =>
                  SignExtend(pState.rules.Delay, WideBytes) = ExactSeconds(d.n)
        /\ LastLine = Join("Crawl-delay", "abc") =>
              pState.rules.Delay = pPrev.rules.Delay

MatchingAgentLines == {Join("User-agent", "*"), Join("user-agent", "Grawler")}

OtherAgentLines == {Join("User-agent", "other-bot")}

\* C9: the flag starts false, a user-agent line for * or grawler sets it, any
\* other user-agent line clears it, no other line changes it; a line read
\* while the flag is false leaves the rules unchanged, and as long as no
\* matching user-agent line has been read the rules are the default rules.
C9_RespectRulesFlag ==
    /\ pIdx = 1 => ~pState.respectRules
    /\ pIdx > 1 =>
          /\ LastLine \in MatchingAgentLines => pState.respectRules
          /\ LastLine \in OtherAgentLines => ~pState.respectRules
          /\ LastLine \notin MatchingAgentLines \cup OtherAgentLines =>
                pState.respectRules = pPrev.respectRules
          /\ ~pPrev.respectRules => pState.rules = pPrev.rules
    /\ (\A i \in 1..(pIdx - 1) : pBody[i] \notin MatchingAgentLines) =>
          pState.rules = newCrawlRules

\* a block for this crawler, then the block of another crawler whose
\* disallow line has been read without effect
C9_Witness ==
    /\ pIdx = 4
    /\ pBody[1] \in MatchingAgentLines
    /\ pBody[2] \in OtherAgentLines
    /\ pBody[3] = Join("Disallow", "/x")
    /\ ~pState.respectRules
    /\ pState.rules = newCrawlRules

(***************************************************************************)
(* Claims on RulesIndex.Get (SpecIndex)                                    *)
(***************************************************************************)
\* the request failed, or the body of an accepted answer could not be read
IsFetchError(response) ==
    response.err \/ (response.status \in 200..399 /\ response.readErr)

\* C5: when the robots.txt fetch of a Get fails with a transport or
\* body-read error, Get returns an error and the cache (so DomainCount too)
\* is what it was before the call, without an entry for the hostname; and
\* as long as a hostname has no entry, every Get for it has issued a fetch.
C5_FetchErrorCachesNothing ==
    /\ (iPc = "idle" /\ iLast.kind = "fetched" /\ IsFetchError(iLast.response)) =>
          /\ iRet.err
          /\ iRules = iLast.before
          /\ DomainCount(iRules) = DomainCount(iLast.before)
          /\ iLast.host \notin DOMAIN iRules
    /\ \A h \in IndexHosts : h \notin DOMAIN iRules => iFetches[h] = iGets[h]

\* a second fetch for a hostname whose first fetch failed has failed too
C5_Witness ==
    /\ iPc = "idle"
    /\ iLast.kind = "fetched"
    /\ iLast.response.err
    /\ iFetches[iLast.host] = 2
    /\ iRet.err
    /\ iLast.host \notin DOMAIN iRules

\* C6: when the robots.txt answer has a status outside [200,399], Get
\* returns no error and returns and caches the default rules, under which
\* every path passes Test; with a status inside [200,399] (200 and 399
\* included) and a readable body, Get returns and caches the rules parsed
\* from the body.
C6_StatusOutsideRangeGivesDefault ==
    (iPc = "idle" /\ iLast.kind = "fetched" /\ ~iLast.response.err) =>
        /\ iLast.response.status \notin 200..399 =>
              /\ ~iRet.err
              /\ iRet.rules = newCrawlRules
              /\ iLast.host \in DOMAIN iRules
              /\ iRules[iLast.host] = newCrawlRules
              /\ \A path \in {"/x", "/y", "/"} : Test(iRet.rules, path)
        /\ (iLast.response.status \in 200..399 /\ ~iLast.response.readErr) =>
              /\ ~iRet.err
              /\ iRet.rules = ParseBody(iLast.response.body)
              /\ iLast.host \in DOMAIN iRules
              /\ iRules[iLast.host] = iRet.rules

\* a 404 answer has cached the default rules for a hostname, and a 399
\* answer has cached parsed rules for the other
C6_Witness ==
    /\ iPc = "idle"
    /\ iLast.kind = "fetched"
    /\ iLast.response.status = 399
    /\ ~iRet.err
    /\ "/x" \in iRet.rules.DisallowedPaths
    /\ \E h \in DOMAIN iRules : iRules[h] = newCrawlRules

\* C23: an entry of the index is never removed or changed; a Get for a
\* cached hostname returns the entry, without error and without a request;
\* DomainCount grows by one exactly when a Get for an uncached hostname
\* returns without error and never changes otherwise.
C23_CacheOnlyGrows ==
    /\ [](DomainCount(iRules) =
             Cardinality({h \in IndexHosts : h \in DOMAIN iRules})
          /\ \A h \in IndexHosts :
                (h \in DOMAIN iRules /\ ~(iPc = "fetching" /\ iHost = h)) =>
                   iFetches[h] >= 1 /\ iFetches[h] <= iGets[h])
    /\ [][ /\ \A h \in DOMAIN iRules :
                /\ h \in DOMAIN iRules'
                /\ iRules'[h] = iRules[h]
                /\ iFetches'[h] = iFetches[h]
                /\ iGets'[h] > iGets[h] =>
                      /\ iPc' = "idle"
                      /\ ~iRet'.err
                      /\ iRet'.rules = iRules[h]
           /\ DomainCount(iRules') >= DomainCount(iRules)
           /\ DomainCount(iRules') > DomainCount(iRules) <=>
                 (iPc = "fetching" /\ iPc' = "idle" /\ ~iRet'.err)
           /\ DomainCount(iRules') > DomainCount(iRules) =>
                 /\ DomainCount(iRules') = DomainCount(iRules) + 1
                 /\ DOMAIN iRules' = DOMAIN iRules \cup {iHost} ]_vars

\* both hostnames are cached, one with rules parsed from a body, and the
\* last call was a second Get for that hostname, which returned the entry
\* after a single request
C23_Witness ==
    /\ iPc = "idle"
    /\ iLast.kind = "hit"
    /\ DomainCount(iRules) = 2
    /\ iRules[iLast.host] # newCrawlRules
    /\ iRet.rules = iRules[iLast.host]
    /\ iGets[iLast.host] >= 2
    /\ iFetches[iLast.host] = 1

(***************************************************************************)
(* Claims on manager and crawl (Spec)                                      *)
(***************************************************************************)
\* the crawl goroutines started for a URL string
DispatchCount(fullURL) ==
    Cardinality({w \in DOMAIN workers : String(workers[w].toCrawl.URL) = fullURL})

\* C1: every URL string is dispatched to a crawl goroutine at most once over
\* the run and rulesIndex.Get is called for it at most once, however often
\* the admission loop meets it; it has exactly one goroutine when the loop
\* found it permitted and none otherwise.
C1_EachURLDispatchedAtMostOnce ==
    /\ \A w \in DOMAIN workers :
          String(workers[w].toCrawl.URL) \in DOMAIN admission
    /\ \A fullURL \in DOMAIN admission :
          /\ DispatchCount(fullURL) <= 1
          /\ admission[fullURL].lookups <= 1
          /\ admission[fullURL].outcome = "dispatched" <=>
                DispatchCount(fullURL) = 1

\* /public was met twice in one batch and the seed again in a later batch,
\* and each has one goroutine and one lookup
C1_Witness ==
    /\ {"http://a.test/public", "http://a.test/"} \subseteq DOMAIN admission
    /\ \A fullURL \in {"http://a.test/public", "http://a.test/"} :
          /\ admission[fullURL].seen = 2
          /\ admission[fullURL].lookups = 1
          /\ DispatchCount(fullURL) = 1

\* the websites whose goroutine has sent its event to finished
Emitted ==
    {workers[w].toCrawl : w \in {v \in DOMAIN workers : workers[v].result = "fetched"}}

\* the websites in the finished channel or in the hands of the consumer
AtSink ==
    {finished[i] : i \in DOMAIN finished}
    \cup (IF prPc = "draw" THEN {prSite} ELSE {})

\* C2: every event that reaches finished is for a URL string that is in the
\* visited set and whose path the cached rules of its hostname permit; and
\* when the rules cached for a.test disallow /private, no event for
\* http://a.test/private exists.
C2_EmittedWereAdmittedAndPermitted ==
    /\ AtSink \subseteq Emitted
    /\ \A site \in Emitted :
          /\ String(site.URL) \in visited
          /\ Hostname(site.URL) \in DOMAIN rulesIndex
          /\ LET rules == rulesIndex[Hostname(site.URL)]
             IN  \/ site.URL.Path \in rules.AllowedPaths
                 \/ site.URL.Path \notin rules.DisallowedPaths
    /\ ( /\ "a.test" \in DOMAIN rulesIndex
         /\ "/private" \in rulesIndex["a.test"].DisallowedPaths ) =>
          /\ \A site \in Emitted \cup AtSink :
                String(site.URL) # "http://a.test/private"
          /\ \A edge \in graph : edge.node # "http://a.test/private"

\* /private was admitted and denied, and the event of /public was emitted
C2_Witness ==
    /\ "http://a.test/private" \in visited
    /\ admission["http://a.test/private"].outcome = "denied"
    /\ \E site \in Emitted : String(site.URL) = "http://a.test/public"
    /\ \E edge \in graph : edge.node = "http://a.test/public"

\* the links of a page that url.Parse accepts
ParsableCount(allLinks) ==
    Cardinality({i \in DOMAIN allLinks : allLinks[i] # "%zz"})

\* C10: every candidate a crawl goroutine submits to vettingQueue has a
\* host and a scheme, and the batch holds one candidate per link that
\* parses.
C10_CandidatesAreNormalized ==
    \A w \in DOMAIN workers :
        workers[w].pc \in {"sendVetting", "sendFinished"} =>
            LET batch == workers[w].urlsToVet
            IN  /\ \A i \in DOMAIN batch :
                      batch[i].URL.Host # "" /\ batch[i].URL.Scheme # ""
                /\ Len(batch) =
                      ParsableCount(PageLinks(String(workers[w].toCrawl.URL)))

\* the crawl goroutines that have sent their batch to vettingQueue
Submitted == {w \in DOMAIN workers : workers[w].pc \in {"sendFinished", "done"}
                                      /\ workers[w].result # "failed"}

\* C11: in every event sent to finished the referrer is the zero URL exactly
\* when the URL string is the seed's; the referrer of every other event has
\* a hostname and is the URL of the crawled page whose batch held the
\* website; the printer draws the edge from "start" for the seed alone.
C11_ReferrerEmptyExactlyForSeed ==
    /\ \A site \in Emitted \cup AtSink :
          /\ site.referrer = ZeroURL <=> String(site.URL) = String(parsedURL)
          /\ site.referrer # ZeroURL =>
                /\ Hostname(site.referrer) # ""
                /\ \E w \in Submitted :
                      /\ workers[w].toCrawl.URL = site.referrer
                      /\ \E i \in DOMAIN workers[w].urlsToVet :
                            workers[w].urlsToVet[i] = site
    /\ \A edge \in graph :
          edge.from = "start" <=> edge.node = String(parsedURL)

\* the seed and /public were both drawn, and the link from /public back to
\* the seed was met by the admission loop
C11_Witness ==
    /\ \E edge \in graph : edge.node = String(parsedURL)
    /\ \E edge \in graph :
          edge.node = "http://a.test/public" /\ edge.from = "http://a.test/"
    /\ String(parsedURL) \in DOMAIN admission
    /\ admission[String(parsedURL)].seen = 2

\* a GET that crawl goes on from: no error and a status in [200, 399]
Accepted(response) ==
    ~response.err /\ response.status >= 200 /\ response.status <= 399

\* the crawl goroutines whose event is in finished, with the consumer, or
\* drawn
Delivered ==
    {w \in DOMAIN workers :
        \/ workers[w].toCrawl \in AtSink
        \/ \E edge \in graph : edge.node = String(workers[w].toCrawl.URL)}

\* C12: a crawl goroutine that holds a batch or is about to send its event
\* got a GET without error and with a status in [200, 399]; a goroutine
\* that returned without an event printed an error or a status outside
\* [200, 399] and built no batch; an event exists only for a goroutine that
\* sent it, and no two goroutines that sent one share a URL string.  A step
\* that adds to finished adds the website of one goroutine, which returns;
\* a batch is added to vettingQueue only by such a goroutine (and by main,
\* for the seed), and no goroutine acts after it has returned.
C12_OneEventPerSuccessfulGet ==
    /\ [](\A w \in DOMAIN workers :
            /\ workers[w].pc \in {"sendVetting", "sendFinished"} =>
                  Accepted(workers[w].response) /\ workers[w].result = "none"
            /\ workers[w].result = "failed" =>
                  /\ workers[w].pc = "done"
                  /\ ~Accepted(workers[w].printed)
                  /\ workers[w].urlsToVet = <<>>
                  /\ w \notin Delivered
            /\ workers[w].result = "fetched" => workers[w].pc = "done"
            /\ w \in Delivered => workers[w].result = "fetched"
            /\ \A v \in DOMAIN workers :
                  ( /\ workers[v].result = "fetched"
                    /\ workers[w].result = "fetched"
                    /\ String(workers[v].toCrawl.URL) =
                          String(workers[w].toCrawl.URL) ) => v = w)
    /\ [][ /\ Len(finished') > Len(finished) =>
                \E w \in DOMAIN workers :
                   /\ workers[w].pc = "sendFinished"
                   /\ workers'[w].result = "fetched"
                   /\ finished' = Append(finished, workers[w].toCrawl)
                   /\ \A v \in DOMAIN workers \ {w} : workers'[v] = workers[v]
           /\ Len(vettingQueue') > Len(vettingQueue) =>
                \/ mainPc = "start"
                \/ \E w \in DOMAIN workers :
                      /\ workers[w].pc = "sendVetting"
                      /\ Accepted(workers[w].response)
                      /\ vettingQueue' =
                            Append(vettingQueue, workers[w].urlsToVet)
           /\ \A w \in DOMAIN workers :
                workers[w].pc = "done" => workers'[w] = workers[w] ]_vars

\* the seed's goroutine sent its event, and the goroutine of /public
\* returned without one on a 199 or a 400
C12_Witness ==
    \E s, p \in DOMAIN workers :
        /\ String(workers[s].toCrawl.URL) = "http://a.test/"
        /\ workers[s].result = "fetched"
        /\ s \in Delivered
        /\ String(workers[p].toCrawl.URL) = "http://a.test/public"
        /\ workers[p].result = "failed"
        /\ workers[p].printed.status \in {199, 400}

\* C13: vettingQueue and finished never hold more than QueueSize entries.
\* While a channel is full a goroutine that is at its send into it keeps its
\* place and its item; a step that lengthens a channel appends the item of
\* one goroutine at its send, which moves on; a step that shortens a
\* channel hands its head to the consumer and leaves the rest in order.
C13_QueuesBoundedBlockingFifo ==
    /\ [](Len(vettingQueue) <= QueueSize /\ Len(finished) <= QueueSize)
    /\ [][ /\ \A w \in DOMAIN workers :
                /\ ( workers[w].pc = "sendVetting"
                     /\ Len(vettingQueue) = QueueSize ) =>
                      workers'[w] = workers[w]
                /\ ( workers[w].pc = "sendFinished"
                     /\ Len(finished) = QueueSize ) =>
                      workers'[w] = workers[w]
                /\ ( workers[w].pc = "sendVetting"
                     /\ workers'[w].pc # "sendVetting" ) =>
                      /\ workers'[w].pc = "sendFinished"
                      /\ vettingQueue' =
                            Append(vettingQueue, workers[w].urlsToVet)
                /\ ( workers[w].pc = "sendFinished"
                     /\ workers'[w].pc # "sendFinished" ) =>
                      /\ workers'[w].pc = "done"
                      /\ finished' = Append(finished, workers[w].toCrawl)
           /\ vettingQueue' # vettingQueue =>
                \/ /\ mainPc = "start"
                   /\ vettingQueue = <<>> /\ Len(vettingQueue') = 1
                \/ \E w \in DOMAIN workers :
                      /\ workers[w].pc = "sendVetting"
                      /\ workers'[w].pc = "sendFinished"
                      /\ vettingQueue' =
                            Append(vettingQueue, workers[w].urlsToVet)
                \/ /\ vettingQueue # <<>>
                   /\ vettingQueue' = Tail(vettingQueue)
                   /\ mBatch' = Head(vettingQueue)
           /\ finished' # finished =>
                \/ \E w \in DOMAIN workers :
                      /\ workers[w].pc = "sendFinished"
                      /\ workers'[w].pc = "done"
                      /\ finished' = Append(finished, workers[w].toCrawl)
                \/ /\ finished # <<>>
                   /\ finished' = Tail(finished)
                   /\ prSite' = Head(finished) ]_vars

\* both channels are full, each with two different items, while one
\* goroutine waits at its send into vettingQueue and another at its send
\* into finished
C13_Witness ==
    /\ Len(vettingQueue) = QueueSize
    /\ Len(finished) = QueueSize
    /\ finished[1] # finished[2]
    /\ \E v, f \in DOMAIN workers :
          /\ workers[v].pc = "sendVetting"
          /\ workers[f].pc = "sendFinished"

\* the -start flag parses as a URL with a scheme and a host
SeedIsAbsolute ==
    /\ ParseURL(firstURL).ok
    /\ parsedURL.Scheme # ""
    /\ parsedURL.Host # ""

\* C14: when the -start flag does not parse as an absolute URL, main never
\* gets to run the manager: nothing is queued or marked visited, no
\* robots.txt request and no crawl goroutine is ever started.
C14_NonAbsoluteSeedStartsNothing ==
    ~SeedIsAbsolute =>
        /\ mainPc \in {"start", "exited"}
        /\ vettingQueue = <<>>
        /\ visited = {}
        /\ robotsFetches = <<>>
        /\ workers = <<>>

\* the crawl goroutines started for a URL string
WorkersOf(fullURL) ==
    {w \in DOMAIN workers : String(workers[w].toCrawl.URL) = fullURL}

\* the admission loop dropped the URL string, or its goroutine has returned
Terminal(fullURL) ==
    /\ fullURL \in DOMAIN admission
    /\ \/ admission[fullURL].outcome \in {"error", "denied"}
       \/ \E w \in WorkersOf(fullURL) : workers[w].pc = "done"

\* C16: a URL string is in visited before rulesIndex.Get is called for it,
\* looked up before a goroutine is started for it, and its GET is sent only
\* by that goroutine after its timer; in the end every URL string in
\* visited has been dropped by the admission loop or has had its goroutine
\* return (with or without an event), never both, and the admission loop
\* is back at its receive with vettingQueue empty.
C16_AdmittedReachOneTerminalOutcome ==
    /\ [](\A fullURL \in DOMAIN admission :
            /\ admission[fullURL].lookups > 0 => fullURL \in visited
            /\ WorkersOf(fullURL) # {} =>
                  /\ admission[fullURL].lookups = 1
                  /\ admission[fullURL].outcome = "dispatched"
            /\ admission[fullURL].outcome \in {"error", "denied"} =>
                  WorkersOf(fullURL) = {})
    /\ <>[](/\ \A fullURL \in visited : Terminal(fullURL)
             /\ mPc = "recv"
             /\ vettingQueue = <<>>)

\* the URL strings of the model whose URL has no hostname
HostlessStrings == {"", "/public"}

\* C17: for a URL without a hostname rulesIndex.Get is never called (the
\* admission loop is never inside Get with the empty hostname, and no
\* lookup and no robots.txt request is on record for it), the index holds no
\* entry for the empty hostname, and no crawl goroutine is started for it.
C17_EmptyHostnameDroppedBeforeLookup ==
    /\ mPc = "fetching" => Hostname(toVet.URL) # ""
    /\ \A fullURL \in HostlessStrings \cap DOMAIN admission :
          admission[fullURL].lookups = 0
    /\ "" \notin DOMAIN robotsFetches
    /\ "" \notin DOMAIN rulesIndex
    /\ \A w \in DOMAIN workers : Hostname(workers[w].toCrawl.URL) # ""

\* C18: a crawl goroutine whose GET succeeded is never kept from sending
\* its event by the submission of its links: whenever it still has its
\* batch to submit, vettingQueue has room for it, so that it gets to
\* finished <- toCrawl without a receive by the admission loop.
C18_EmissionDoesNotWaitOnManager ==
    \A w \in DOMAIN workers :
        workers[w].pc = "sendVetting" => Len(vettingQueue) < QueueSize

\* C19: the admission loop can always take its next step whatever the crawl
\* goroutines are doing: inside a batch it can handle the website it is
\* at, with a batch queued it can receive it, and the one answer it waits
\* for is that of the robots.txt request inside rulesIndex.Get.
C19_ManagerNeverWaitsForPageFetch ==
    /\ mPc \in {"recv", "range", "fetching"}
    /\ mPc = "range" =>
          ENABLED (ManagerSkip \/ ManagerAdmitCached \/ ManagerAdmitFetch)
    /\ mPc = "fetching" => ENABLED ManagerRobotsAnswer
    /\ (mPc = "recv" /\ vettingQueue # <<>>) => ENABLED ManagerReceive

\* a goroutine was started for a second URL while the goroutine of a URL
\* admitted before it still waits for its timer or for its GET, and the
\* loop has gone on to a further website
C19_Witness ==
    /\ mPc = "range"
    /\ \E a, b \in DOMAIN workers :
          /\ a < b
          /\ workers[a].pc \in {"timer", "get"}
          /\ workers[b].pc \in {"timer", "get"}

\* C20: every crawl goroutine starts at its timer, set to the Delay of the
\* rules the index holds for the hostname of its URL, and its GET is sent
\* by the step in which that timer fires, a step of this goroutine alone;
\* the goroutines that wait for their timer have sent no GET.
C20_GetOnlyAfterOwnTimer ==
    /\ [](\A w \in DOMAIN workers :
            /\ Hostname(workers[w].toCrawl.URL) \in DOMAIN rulesIndex
            /\ workers[w].delay =
                  rulesIndex[Hostname(workers[w].toCrawl.URL)].Delay
            /\ workers[w].pc = "timer" =>
                  /\ workers[w].response = NoResponse
                  /\ workers[w].result = "none")
    /\ [][ /\ Len(workers') >= Len(workers)
           /\ \A w \in DOMAIN workers' \ DOMAIN workers :
                workers'[w].pc = "timer"
           /\ \A w \in DOMAIN workers :
                /\ workers'[w].pc = "timer" => workers[w].pc = "timer"
                /\ workers'[w].pc = "get" =>
                      workers[w].pc \in {"timer", "get"}
                /\ ( workers[w].pc = "timer"
                     /\ workers'[w].pc # "timer" ) =>
                      /\ workers'[w].pc = "get"
                      /\ \A v \in DOMAIN workers \ {w} :
                            workers'[v] = workers[v] ]_vars

\* the GET for http://b.test/ is out after a timer of five seconds, the
\* Crawl-delay of b.test, while a goroutine for a.test had one of one second
C20_Witness ==
    \E a, b \in DOMAIN workers :
        /\ Hostname(workers[b].toCrawl.URL) = "b.test"
        /\ workers[b].pc = "get"
        /\ workers[b].delay = Mul(I64(5), Second)
        /\ Hostname(workers[a].toCrawl.URL) = "a.test"
        /\ workers[a].delay = Second

\* C21: a crawl goroutine waits for its own timer and for nothing else: its
\* GET can go out whenever it is at its timer, also while the GET of another
\* URL of the same hostname is out.
C21_DelayIsPerDispatch ==
    \A w \in DOMAIN workers :
        workers[w].pc = "timer" => ENABLED TimerFires(w)

\* the GETs of two URLs of c.test, admitted one after the other from one
\* batch, are out at the same time
C21_Witness ==
    \E a, b \in DOMAIN workers :
        /\ b = a + 1
        /\ workers[a].pc = "get"
        /\ workers[b].pc = "get"
        /\ Hostname(workers[a].toCrawl.URL) = "c.test"
        /\ Hostname(workers[b].toCrawl.URL) = "c.test"
        /\ workers[a].toCrawl.referrer = workers[b].toCrawl.referrer

\* the crawl goroutines that have been started and have not returned
Alive == {w \in DOMAIN workers : workers[w].pc # "done"}

\* C22: the number of crawl goroutines alive at the same time (at their
\* timer, in their GET or at a channel send) never exceeds the bound the
\* buffering gives, the capacity of the queues, whatever the number of links
\* of a page.
C22_AliveTasksBoundedByCapacity ==
    Cardinality(Alive) <= QueueSize

\* C24: every URL string the admission loop has handled is in visited from
\* the moment rulesIndex.Get is called for it, and visited never loses a
\* member; a URL string dropped on a robots.txt error or a denial keeps
\* that outcome, a goroutine that returned on a failed GET stays the only
\* one of its URL string, and no URL string is looked up a second time,
\* however often it is met again.
C24_DroppedURLNeverTriedAgain ==
    /\ [](\A fullURL \in DOMAIN admission :
            /\ admission[fullURL].lookups > 0 => fullURL \in visited
            /\ admission[fullURL].lookups <= 1
            /\ admission[fullURL].outcome \in {"error", "denied"} =>
                  WorkersOf(fullURL) = {}
            /\ Cardinality(WorkersOf(fullURL)) <= 1)
    /\ [][ /\ visited \subseteq visited'
           /\ \A fullURL \in DOMAIN admission :
                /\ fullURL \in DOMAIN admission'
                /\ admission[fullURL].outcome \in {"error", "denied"} =>
                      /\ admission'[fullURL].outcome = admission[fullURL].outcome
                      /\ admission'[fullURL].lookups = admission[fullURL].lookups
           /\ \A w \in DOMAIN workers :
                workers[w].result = "failed" => workers'[w] = workers[w] ]_vars

\* http://e.test/a was dropped when the robots.txt request for e.test
\* failed; the request then succeeded for http://e.test/b, whose page links
\* back to /a, and the loop met /a again without a second lookup
C24_Witness ==
    /\ "http://e.test/a" \in DOMAIN admission
    /\ admission["http://e.test/a"].outcome = "error"
    /\ admission["http://e.test/a"].seen = 2
    /\ admission["http://e.test/a"].lookups = 1
    /\ "e.test" \in DOMAIN rulesIndex
    /\ robotsFetches["e.test"] = 2
    /\ WorkersOf("http://e.test/a") = {}
    /\ mPc = "recv"

\* C25: the graph mutex taken by the periodic writer is released again, so
\* that the consumer of finished is never blocked for good: whenever the
\* writer holds the mutex it is free again later, every event in finished
\* is eventually received and drawn, and no crawl goroutine stays at its
\* send into finished.
C25_SinkConsumerNeverBlockedForever ==
    /\ (mutex = "ticker") ~> (mutex = "free")
    /\ (finished # <<>> \/ prPc = "draw") ~> (finished = <<>> /\ prPc = "recv")
    /\ (\E w \in DOMAIN workers : workers[w].pc = "sendFinished") ~>
          (\A w \in DOMAIN workers : workers[w].pc # "sendFinished")

\* C26 as amended: when a crawl goroutine exists for a page found through
\* a link, the goroutine of the page that held the link has had its GET
\* accepted and has sent the batch with that link to vettingQueue; it is at
\* its send into finished or past it.
C26_ReferrerSubmittedFirst ==
    \A w \in DOMAIN workers :
        workers[w].toCrawl.referrer # ZeroURL =>
            \E r \in Submitted \ {w} :
                /\ workers[r].toCrawl.URL = workers[w].toCrawl.referrer
                /\ \E i \in DOMAIN workers[r].urlsToVet :
                      workers[r].urlsToVet[i] = workers[w].toCrawl

\* the event of a page of c.test has been sent while the goroutine of the
\* seed, on whose page it was found, is still at its send into finished
C26_Witness ==
    \E r, w \in DOMAIN workers :
        /\ workers[w].toCrawl.referrer = workers[r].toCrawl.URL
        /\ workers[w].result = "fetched"
        /\ workers[r].pc = "sendFinished"
        /\ Len(finished) < QueueSize

\* C26 as claimed: when the event of a page found through a link has been
\* sent to finished, the event of the page that held the link has been sent
\* before it: the goroutine of the referrer has sent its own event.
C26_ReferrerEventComesFirst ==
    \A w \in DOMAIN workers :
        (workers[w].result = "fetched" /\ workers[w].toCrawl.referrer # ZeroURL) =>
            \E r \in DOMAIN workers :
                /\ workers[r].toCrawl.URL = workers[w].toCrawl.referrer
                /\ workers[r].result = "fetched"

(***************************************************************************)
(* Claims on the vet goroutines (SpecVet)                                  *)
(***************************************************************************)
\* the vet goroutines whose robots.txt request for a hostname is in flight
FetchingFor(hostname) ==
    {a \in AgentIds : vets[a].pc = "fetching" /\ Hostname(VetURL(a)) = hostname}

\* C4: for every hostname at most one robots.txt fetch is issued, a fetch
\* that failed (and is retried by a later lookup) not counted: two lookups
\* of a never-seen hostname that overlap do not both issue a fetch.
C4_OneRobotsFetchPerHostname ==
    \A hostname \in DOMAIN vFetches.sent :
        /\ vFetches.sent[hostname] - Count(vFetches.failed, hostname) <= 1
        /\ Cardinality(FetchingFor(hostname)) <= 1

\* C15: whatever the interleaving of the vet goroutines, no URL string is
\* sent to crawlingQueue more than once.
C15_NoURLPushedTwice ==
    \A fullURL \in DOMAIN vPushes : vPushes[fullURL] <= 1

\* Test is about to be called on some rules and some path
InitTest ==
    /\ tRules \in [DisallowedPaths : SUBSET TestPaths,
                    AllowedPaths : SUBSET TestPaths,
                    Delay : {newCrawlRules.Delay}]
    /\ tPath \in TestPaths
    /\ tDone = FALSE
    /\ tResult = FALSE
    /\ pBody = IdleParse.body
    /\ pIdx = IdleParse.idx
    /\ pState = IdleParse.state
    /\ pPrev = IdleParse.prev
    /\ iRules = IdleIndex.rules
    /\ iPc = IdleIndex.pc
    /\ iHost = IdleIndex.host
    /\ iRet = IdleIndex.ret
    /\ iLast = IdleIndex.last
    /\ iGets = IdleIndex.gets
    /\ iFetches = IdleIndex.fetches
    /\ firstURL = IdleCrawl.firstURL
    /\ mainPc = IdleCrawl.mainPc
    /\ visited = IdleCrawl.visited
    /\ rulesIndex = IdleCrawl.rulesIndex
    /\ vettingQueue = IdleCrawl.vettingQueue
    /\ finished = IdleCrawl.finished
    /\ mPc = IdleCrawl.mPc
    /\ mBatch = IdleCrawl.mBatch
    /\ mIdx = IdleCrawl.mIdx
    /\ workers = IdleCrawl.workers
    /\ prPc = IdleCrawl.prPc
    /\ prSite = IdleCrawl.prSite
    /\ graph = IdleCrawl.graph
    /\ mutex = IdleCrawl.mutex
    /\ admission = IdleCrawl.admission
    /\ robotsFetches = IdleCrawl.robotsFetches
    /\ vVisited = IdleVet.vVisited
    /\ visitingRules = IdleVet.visitingRules
    /\ vVetting = IdleVet.vVetting
    /\ crawlingQueue = IdleVet.crawlingQueue
    /\ vFinished = IdleVet.vFinished
    /\ vets = IdleVet.vets
    /\ crawls = IdleVet.crawls
    /\ pendingSends = IdleVet.pendingSends
    /\ vFetches = IdleVet.vFetches
    /\ vPushes = IdleVet.vPushes

\* fetchCrawlRules is about to parse some body
InitParse ==
    /\ pBody \in Bodies
    /\ pIdx = 1
    /\ pState = ParseInit
    /\ pPrev = ParseInit
    /\ tRules = IdleTest.rules
    /\ tPath = IdleTest.path
    /\ tDone = IdleTest.done
    /\ tResult = IdleTest.result
    /\ iRules = IdleIndex.rules
    /\ iPc = IdleIndex.pc
    /\ iHost = IdleIndex.host
    /\ iRet = IdleIndex.ret
    /\ iLast = IdleIndex.last
    /\ iGets = IdleIndex.gets
    /\ iFetches = IdleIndex.fetches
    /\ firstURL = IdleCrawl.firstURL
    /\ mainPc = IdleCrawl.mainPc
    /\ visited = IdleCrawl.visited
    /\ rulesIndex = IdleCrawl.rulesIndex
    /\ vettingQueue = IdleCrawl.vettingQueue
    /\ finished = IdleCrawl.finished
    /\ mPc = IdleCrawl.mPc
    /\ mBatch = IdleCrawl.mBatch
    /\ mIdx = IdleCrawl.mIdx
    /\ workers = IdleCrawl.workers
    /\ prPc = IdleCrawl.prPc
    /\ prSite = IdleCrawl.prSite
    /\ graph = IdleCrawl.graph
    /\ mutex = IdleCrawl.mutex
    /\ admission = IdleCrawl.admission
    /\ robotsFetches = IdleCrawl.robotsFetches
    /\ vVisited = IdleVet.vVisited
    /\ visitingRules = IdleVet.visitingRules
    /\ vVetting = IdleVet.vVetting
    /\ crawlingQueue = IdleVet.crawlingQueue
    /\ vFinished = IdleVet.vFinished
    /\ vets = IdleVet.vets
    /\ crawls = IdleVet.crawls
    /\ pendingSends = IdleVet.pendingSends
    /\ vFetches = IdleVet.vFetches
    /\ vPushes = IdleVet.vPushes

\* a new index, no Get called yet
InitIndex ==
    /\ iRules = IdleIndex.rules
    /\ iPc = IdleIndex.pc
    /\ iHost = IdleIndex.host
    /\ iRet = IdleIndex.ret
    /\ iLast = IdleIndex.last
    /\ iGets = IdleIndex.gets
    /\ iFetches = IdleIndex.fetches
    /\ tRules = IdleTest.rules
    /\ tPath = IdleTest.path
    /\ tDone = IdleTest.done
    /\ tResult = IdleTest.result
    /\ pBody = IdleParse.body
    /\ pIdx = IdleParse.idx
    /\ pState = IdleParse.state
    /\ pPrev = IdleParse.prev
    /\ firstURL = IdleCrawl.firstURL
    /\ mainPc = IdleCrawl.mainPc
    /\ visited = IdleCrawl.visited
    /\ rulesIndex = IdleCrawl.rulesIndex
    /\ vettingQueue = IdleCrawl.vettingQueue
    /\ finished = IdleCrawl.finished
    /\ mPc = IdleCrawl.mPc
    /\ mBatch = IdleCrawl.mBatch
    /\ mIdx = IdleCrawl.mIdx
    /\ workers = IdleCrawl.workers
    /\ prPc = IdleCrawl.prPc
    /\ prSite = IdleCrawl.prSite
    /\ graph = IdleCrawl.graph
    /\ mutex = IdleCrawl.mutex
    /\ admission = IdleCrawl.admission
    /\ robotsFetches = IdleCrawl.robotsFetches
    /\ vVisited = IdleVet.vVisited
    /\ visitingRules = IdleVet.visitingRules
    /\ vVetting = IdleVet.vVetting
    /\ crawlingQueue = IdleVet.crawlingQueue
    /\ vFinished = IdleVet.vFinished
    /\ vets = IdleVet.vets
    /\ crawls = IdleVet.crawls
    /\ pendingSends = IdleVet.pendingSends
    /\ vFetches = IdleVet.vFetches
    /\ vPushes = IdleVet.vPushes

\* manager has made the channels and has sent the seed to vettingQueue
Init ==
    /\ firstURL \in StartFlags
    /\ mainPc = "start"
    /\ visited = {}
    /\ rulesIndex = NewRulesIndex
    /\ vettingQueue = <<>>
    /\ finished = <<>>
    /\ mPc = "recv"
    /\ mBatch = <<>>
    /\ mIdx = 1
    /\ workers = <<>>
    /\ prPc = "recv"
    /\ prSite = ZeroWebsite
    /\ graph = {}
    /\ mutex = "free"
    /\ admission = <<>>
    /\ robotsFetches = <<>>
    /\ tRules = IdleTest.rules
    /\ tPath = IdleTest.path
    /\ tDone = IdleTest.done
    /\ tResult = IdleTest.result
    /\ pBody = IdleParse.body
    /\ pIdx = IdleParse.idx
    /\ pState = IdleParse.state
    /\ pPrev = IdleParse.prev
    /\ iRules = IdleIndex.rules
    /\ iPc = IdleIndex.pc
    /\ iHost = IdleIndex.host
    /\ iRet = IdleIndex.ret
    /\ iLast = IdleIndex.last
    /\ iGets = IdleIndex.gets
    /\ iFetches = IdleIndex.fetches
    /\ vVisited = IdleVet.vVisited
    /\ visitingRules = IdleVet.visitingRules
    /\ vVetting = IdleVet.vVetting
    /\ crawlingQueue = IdleVet.crawlingQueue
    /\ vFinished = IdleVet.vFinished
    /\ vets = IdleVet.vets
    /\ crawls = IdleVet.crawls
    /\ pendingSends = IdleVet.pendingSends
    /\ vFetches = IdleVet.vFetches
    /\ vPushes = IdleVet.vPushes

\* main has sent the seed to vettingQueue and has started the goroutines
InitVet ==
    /\ vVisited = {}
    /\ visitingRules = <<>>
    /\ vVetting = <<<<initialURL>>>>
    /\ crawlingQueue = <<>>
    /\ vFinished = <<>>
    /\ vets = IdleVet.vets
    /\ crawls = IdleVet.crawls
    /\ pendingSends = <<>>
    /\ vFetches = [sent |-> <<>>, failed |-> <<>>]
    /\ vPushes = <<>>
    /\ tRules = IdleTest.rules
    /\ tPath = IdleTest.path
    /\ tDone = IdleTest.done
    /\ tResult = IdleTest.result
    /\ pBody = IdleParse.body
    /\ pIdx = IdleParse.idx
    /\ pState = IdleParse.state
    /\ pPrev = IdleParse.prev
    /\ iRules = IdleIndex.rules
    /\ iPc = IdleIndex.pc
    /\ iHost = IdleIndex.host
    /\ iRet = IdleIndex.ret
    /\ iLast = IdleIndex.last
    /\ iGets = IdleIndex.gets
    /\ iFetches = IdleIndex.fetches
    /\ firstURL = IdleCrawl.firstURL
    /\ mainPc = IdleCrawl.mainPc
    /\ visited = IdleCrawl.visited
    /\ rulesIndex = IdleCrawl.rulesIndex
    /\ vettingQueue = IdleCrawl.vettingQueue
    /\ finished = IdleCrawl.finished
    /\ mPc = IdleCrawl.mPc
    /\ mBatch = IdleCrawl.mBatch
    /\ mIdx = IdleCrawl.mIdx
    /\ workers = IdleCrawl.workers
    /\ prPc = IdleCrawl.prPc
    /\ prSite = IdleCrawl.prSite
    /\ graph = IdleCrawl.graph
    /\ mutex = IdleCrawl.mutex
    /\ admission = IdleCrawl.admission
    /\ robotsFetches = IdleCrawl.robotsFetches

NextTest == CallTest

NextParse == ParseNext

NextIndex ==
    \/ \E hostname \in IndexHosts : IndexGetHit(hostname)
    \/ \E hostname \in IndexHosts : IndexGetMiss(hostname)
    \/ \E response \in RobotsResponses : IndexGetReturn(response)

Next ==
    \/ main
    \/ ManagerReceive
    \/ ManagerSkip
    \/ ManagerAdmitCached
    \/ ManagerAdmitFetch
    \/ ManagerRobotsAnswer
    \/ \E w \in DOMAIN workers : TimerFires(w)
    \/ \E w \in DOMAIN workers :
          \E response \in PageResponses(String(workers[w].toCrawl.URL)) :
             PageAnswer(w, response)
    \/ \E w \in DOMAIN workers : SendVetting(w)
    \/ \E w \in DOMAIN workers : SendFinished(w)
    \/ PrinterReceive
    \/ PrinterDraw
    \/ TickerWrite

NextVet ==
    \/ \E a \in AgentIds : VetReceive(a)
    \/ \E a \in AgentIds : VetLoadVisited(a)
    \/ \E a \in AgentIds : VetStoreVisited(a)
    \/ \E a \in AgentIds : VetLoadRules(a)
    \/ \E a \in AgentIds : VetRobotsAnswer(a)
    \/ \E a \in AgentIds : VetStoreRules(a)
    \/ \E a \in AgentIds : VetReloadRules(a)
    \/ \E a \in AgentIds : VetPush(a)
    \/ \E c \in AgentIds : CrawlReceive(c)
    \/ \E c \in AgentIds : CrawlAnswer(c)
    \/ \E c \in AgentIds : CrawlFinish(c)
    \/ \E i \in DOMAIN pendingSends : SenderSend(i)
    \/ Display

SpecTest == InitTest /\ [][NextTest]_vars

SpecParse == InitParse /\ [][NextParse]_vars

SpecIndex == InitIndex /\ [][NextIndex]_vars

Spec == Init /\ [][Next]_vars

\* the crawl goroutines a run can start: one per page of the largest site
WorkerIds == 1..Cardinality(SteadyPages)

\* Go schedules every goroutine that can run, every HTTP request returns
\* (the client has a timeout), every timer and the ticker fire, and a
\* goroutine waiting at a channel send gets its turn when there is room
Fairness ==
    /\ WF_vars(main)
    /\ WF_vars(ManagerReceive)
    /\ WF_vars(ManagerSkip)
    /\ WF_vars(ManagerAdmitCached)
    /\ WF_vars(ManagerAdmitFetch)
    /\ WF_vars(ManagerRobotsAnswer)
    /\ WF_vars(PrinterReceive)
    /\ WF_vars(PrinterDraw)
    /\ WF_vars(TickerWrite)
    /\ \A w \in WorkerIds :
          /\ WF_vars(w \in DOMAIN workers /\ TimerFires(w))
          /\ WF_vars(/\ w \in DOMAIN workers
                     /\ \E response \in
                           PageResponses(String(workers[w].toCrawl.URL)) :
                           PageAnswer(w, response))
          /\ SF_vars(w \in DOMAIN workers /\ SendVetting(w))
          /\ SF_vars(w \in DOMAIN workers /\ SendFinished(w))

FairSpec == Spec /\ Fairness

SpecVet == InitVet /\ [][NextVet]_vars

====
